---- MODULE Spec2Model ----
(***************************************************************************)
(* A model of the two scripts of wellcome-commons-upload:                  *)
(*   download_images.py   (paginated fetch, metadata fetch, filename       *)
(*                         sanitiser, CSV rows, batched download)          *)
(*   upload_to_commons.py (category matcher, JSON progress checkpoint,     *)
(*                         sequential upload loop)                         *)
(* Text is modelled as a sequence of one-character strings, so that        *)
(* sanitising, matching and JSON encoding are computed character by        *)
(* character as the code computes them.                                    *)
(***************************************************************************)
EXTENDS Integers, Sequences, FiniteSets, TLC

VARIABLES
    \* ---- upload_to_commons.py: main ----
    progress_file,   \* upload_progress.json: [exists, text]
    rows,            \* the CSV rows (their "filename" column)
    local_files,     \* filenames present in images/
    args,            \* [dry_run, start, limit] of the current run
    upc,             \* position of main: "idle", "loop", "done"
    progress,        \* the in-memory progress record
    already_uploaded,\* set(progress["uploaded"]) taken at the start of the run
    i,               \* loop index into to_process (0-based, as enumerate)
    counts,          \* [uploaded, failed, skipped] counters of the run
    calls,           \* history: the remote calls and file writes of the run
    run_no,          \* history: number of runs started
    prev_uploads,    \* history: filenames upload() accepted in earlier runs
    file_at_start,   \* history: progress_file when the run started
    processed,       \* history: indices of the rows handled, in order
    timeline         \* history: the timed events of the loop body last run

uploadVars == <<progress_file, rows, local_files, args, upc, progress,
                already_uploaded, i, counts, calls, run_no, prev_uploads,
                file_at_start, processed, timeline>>

VARIABLES
    \* ---- load_progress / save_progress round trip ----
    rt_record,       \* the progress record handed to save_progress
    rt_file,         \* the progress file
    rt_loaded,       \* what load_progress returned
    rt_pc            \* "new", "missing", "saved", "loaded", "resaved"

roundTripVars == <<rt_record, rt_file, rt_loaded, rt_pc>>

VARIABLES
    \* ---- download_images.py: fetch_images_from_api ----
    catalogue,       \* number of results the query has in the catalogue
    page,            \* the page to request next
    all_images,      \* the results gathered
    requested,       \* history: the pages requested, in order
    fpc              \* "fetch", "done"

fetchVars == <<catalogue, page, all_images, requested, fpc>>

VARIABLES
    \* ---- download_images.py: make_commons_filename ----
    fn_title,        \* the title argument
    fn_miro,         \* the miro_number argument
    fn_result,       \* the filename returned
    fn_pc            \* "call", "done"

nameVars == <<fn_title, fn_miro, fn_result, fn_pc>>

VARIABLES
    \* ---- upload_to_commons.py: build_wikitext's category ----
    cat_title,       \* row["title"]
    cat_result,      \* disease_cat
    cat_pc           \* "call", "done"

catVars == <<cat_title, cat_result, cat_pc>>

VARIABLES
    \* ---- download_images.py: fetch_work_details ----
    work_ids,        \* the ids asked for
    failing,         \* the ids whose request raises
    completion,      \* the order futures complete in: "submitted", "reversed"
    work_details,    \* the mapping being built
    w_start,         \* `start` of the batch loop
    w_pending,       \* futures of the batch not yet yielded by as_completed
    w_batches,       \* history: number of batches gone through
    wpc              \* "batch", "collect", "done"

workVars == <<work_ids, failing, completion, work_details, w_start, w_pending,
              w_batches, wpc>>

VARIABLES
    \* ---- download_images.py: build_csv_rows, download_images ----
    dl_images,       \* the images: the work each one belongs to
    dl_disk,         \* the files of output_dir: filename -> size
    dl_rows,         \* the CSV rows: [url, filename]
    url_list,        \* the (url, filename) pairs to download
    dl_start,        \* `start` of the batch loop
    dl_queue,        \* tasks of the batch no worker has taken yet
    dl_running,      \* tasks of the batch a worker is running
    downloaded,      \* the counter of successful downloads
    dpc              \* "build", "list", "batch", "collect", "done"

downloadVars == <<dl_images, dl_disk, dl_rows, url_list, dl_start, dl_queue,
                  dl_running, downloaded, dpc>>

VARIABLES
    \* ---- download_images.py: the batches of the three thread-pool loops ----
    pl_fn,           \* the function the loop belongs to
    pl_items,        \* len() of the list the loop ranges over
    pl_failing,      \* the items whose request raises
    pl_order,        \* which request in flight completes first
    pl_start,        \* `start` of the batch loop
    pl_queue,        \* submitted requests no worker has taken yet
    pl_running,      \* requests in flight: a worker is running them
    pl_done,         \* history: requests whose future is done
    pl_slept,        \* history: number of inter-batch sleeps elapsed
    pl_peak,         \* history: the most requests seen in flight at once
    ppc              \* "batch", "collect", "sleep", "done"

poolVars == <<pl_fn, pl_items, pl_failing, pl_order, pl_start, pl_queue, pl_running,
              pl_done, pl_slept, pl_peak, ppc>>

vars == <<uploadVars, roundTripVars, fetchVars, nameVars, catVars, workVars,
          downloadVars, poolVars>>

(***************************************************************************)
(* Each function is modelled on its own: its steps leave the variables of  *)
(* the others alone.                                                       *)
(***************************************************************************)
UploadOnly ==
    UNCHANGED <<roundTripVars, fetchVars, nameVars,
                catVars, workVars, downloadVars, poolVars>>

RoundTripOnly ==
    UNCHANGED <<uploadVars, fetchVars, nameVars,
                catVars, workVars, downloadVars, poolVars>>

FetchOnly ==
    UNCHANGED <<uploadVars, roundTripVars, nameVars,
                catVars, workVars, downloadVars, poolVars>>

NameOnly ==
    UNCHANGED <<uploadVars, roundTripVars, fetchVars,
                catVars, workVars, downloadVars, poolVars>>

CatOnly ==
    UNCHANGED <<uploadVars, roundTripVars, fetchVars,
                nameVars, workVars, downloadVars, poolVars>>

WorkOnly ==
    UNCHANGED <<uploadVars, roundTripVars, fetchVars,
                nameVars, catVars, downloadVars, poolVars>>

PoolOnly ==
    UNCHANGED <<uploadVars, roundTripVars, fetchVars, nameVars,
                catVars, workVars, downloadVars>>

DownloadOnly ==
    UNCHANGED <<uploadVars, roundTripVars, fetchVars,
                nameVars, catVars, workVars, poolVars>>


(***************************************************************************)
(* Generic helpers on sequences.                                           *)
(***************************************************************************)
Range(s) == {s[k] : k \in 1..Len(s)}

Min(a, b) == IF a < b THEN a ELSE b

Max(a, b) == IF a > b THEN a ELSE b

\* Python slice s[a:b] for 0 <= a, 0 <= b (0-based, end exclusive, clamped).
Slice(s, a, b) ==
    LET lo == Min(a, Len(s))
        hi == Min(b, Len(s))
    IN  IF hi <= lo THEN <<>> ELSE SubSeq(s, lo + 1, hi)

RECURSIVE Concat(_)
\* The concatenation of a sequence of sequences.
Concat(ss) == IF ss = <<>> THEN <<>> ELSE Head(ss) \o Concat(Tail(ss))

\* s starts with p at 1-based position k.
MatchesAt(s, p, k) ==
    /\ k >= 1
    /\ k + Len(p) - 1 <= Len(s)
    /\ \A j \in 1..Len(p) : s[k + j - 1] = p[j]

\* Python's `p in s` for strings.
Contains(s, p) == \E k \in 1..(Len(s) - Len(p) + 1) : MatchesAt(s, p, k)

\* str.lower() on the letters the inputs use.
LowerOf ==
    ("A" :> "a") @@ ("B" :> "b") @@ ("C" :> "c") @@ ("D" :> "d") @@ ("E" :> "e") @@ ("F" :> "f")
    @@ ("G" :> "g") @@ ("H" :> "h") @@ ("I" :> "i") @@ ("J" :> "j") @@ ("K" :> "k") @@ ("L" :> "l") @@ ("M" :> "m")
    @@ ("N" :> "n") @@ ("O" :> "o") @@ ("P" :> "p") @@ ("Q" :> "q") @@ ("R" :> "r") @@ ("S" :> "s") @@ ("T" :> "t")
    @@ ("U" :> "u") @@ ("V" :> "v") @@ ("W" :> "w") @@ ("X" :> "x") @@ ("Y" :> "y") @@ ("Z" :> "z")

\* str.lower() of one character.
LowerChar(c) == IF c \in DOMAIN LowerOf THEN LowerOf[c] ELSE c

(***************************************************************************)
(* JSON text as json.dump(obj, f, indent=2) writes it and json.load reads  *)
(* it.  A JSON value is tagged: a string, an array, or an object kept as   *)
(* the ordered list of its <<key, value>> members (a Python dict keeps     *)
(* insertion order).                                                       *)
(***************************************************************************)
DQ == "\""

BS == "\\"

NL == "\n"

TAB == "\t"

JStr(cs) == [t |-> "str", v |-> cs]

JArr(items) == [t |-> "arr", v |-> items]

JObj(members) == [t |-> "obj", v |-> members]

\* json.encoder: the escape of one character inside a string literal.
EscapeChar(c) ==
    IF c = DQ THEN <<BS, DQ>>
    ELSE IF c = BS THEN <<BS, BS>>
    ELSE IF c = NL THEN <<BS, "n">>
    ELSE IF c = TAB THEN <<BS, "t">>
    ELSE <<c>>

\* json.decoder: the character an escape \c stands for.
UnescapeChar(c) ==
    IF c = "n" THEN NL
    ELSE IF c = "t" THEN TAB
    ELSE c

RECURSIVE EncodeChars(_)
EncodeChars(cs) ==
    IF cs = <<>> THEN <<>> ELSE EscapeChar(Head(cs)) \o EncodeChars(Tail(cs))

EncodeString(cs) == <<DQ>> \o EncodeChars(cs) \o <<DQ>>

RECURSIVE Spaces(_)
Spaces(n) == IF n <= 0 THEN <<>> ELSE <<" ">> \o Spaces(n - 1)

\* The newline and indentation json.dump writes at nesting depth `level`.
JsonIndent == 2

NewlineIndent(level) == <<NL>> \o Spaces(JsonIndent * level)

RECURSIVE JsonDump(_, _), DumpItems(_, _, _), DumpMembers(_, _, _)
DumpItems(items, k, level) ==
    IF k > Len(items) THEN <<>>
    ELSE (IF k > 1 THEN <<",">> ELSE <<>>) \o NewlineIndent(level)
         \o JsonDump(items[k], level) \o DumpItems(items, k + 1, level)

DumpMembers(members, k, level) ==
    IF k > Len(members) THEN <<>>
    ELSE (IF k > 1 THEN <<",">> ELSE <<>>) \o NewlineIndent(level)
         \o EncodeString(members[k][1]) \o <<":", " ">>
         \o JsonDump(members[k][2], level) \o DumpMembers(members, k + 1, level)

JsonDump(val, level) ==
    IF val.t = "str" THEN EncodeString(val.v)
    ELSE IF val.t = "arr" THEN
        IF val.v = <<>> THEN <<"[", "]">>
        ELSE <<"[">> \o DumpItems(val.v, 1, level + 1)
             \o NewlineIndent(level) \o <<"]">>
    ELSE
        IF val.v = <<>> THEN <<"{", "}">>
        ELSE <<"{">> \o DumpMembers(val.v, 1, level + 1)
             \o NewlineIndent(level) \o <<"}">>

JsonWhitespace == {" ", NL, TAB, "\r"}

ParseFail == [ok |-> FALSE, val |-> JArr(<<>>), next |-> 0]

RECURSIVE SkipWs(_, _)
SkipWs(s, k) ==
    IF k <= Len(s) /\ s[k] \in JsonWhitespace THEN SkipWs(s, k + 1) ELSE k

RECURSIVE ScanString(_, _, _)
\* Reads a string literal whose opening quote precedes position k.
ScanString(s, k, acc) ==
    IF k > Len(s) THEN [ok |-> FALSE, val |-> acc, next |-> k]
    ELSE IF s[k] = DQ THEN [ok |-> TRUE, val |-> acc, next |-> k + 1]
    ELSE IF s[k] = BS THEN
        IF k + 1 > Len(s) THEN [ok |-> FALSE, val |-> acc, next |-> k]
        ELSE ScanString(s, k + 2, Append(acc, UnescapeChar(s[k + 1])))
    ELSE ScanString(s, k + 1, Append(acc, s[k]))

RECURSIVE ParseValue(_, _), ParseElems(_, _, _), ParseMembers(_, _, _)
ParseElems(s, k0, acc) ==
    LET k == SkipWs(s, k0)
    IN  IF k > Len(s) THEN ParseFail
        ELSE IF s[k] = "]" THEN [ok |-> TRUE, val |-> JArr(acc), next |-> k + 1]
        ELSE IF s[k] = "," THEN ParseElems(s, k + 1, acc)
        ELSE LET r == ParseValue(s, k)
             IN  IF r.ok THEN ParseElems(s, r.next, Append(acc, r.val))
                 ELSE ParseFail

ParseMembers(s, k0, acc) ==
    LET k == SkipWs(s, k0)
    IN  IF k > Len(s) THEN ParseFail
        ELSE IF s[k] = "}" THEN [ok |-> TRUE, val |-> JObj(acc), next |-> k + 1]
        ELSE IF s[k] = "," THEN ParseMembers(s, k + 1, acc)
        ELSE IF s[k] = DQ THEN
            LET key == ScanString(s, k + 1, <<>>)
                c   == SkipWs(s, key.next)
            IN  IF key.ok /\ c <= Len(s) /\ s[c] = ":" THEN
                    LET r == ParseValue(s, c + 1)
                    IN  IF r.ok
                        THEN ParseMembers(s, r.next, Append(acc, <<key.val, r.val>>))
                        ELSE ParseFail
                ELSE ParseFail
        ELSE ParseFail

ParseValue(s, k0) ==
    LET k == SkipWs(s, k0)
    IN  IF k > Len(s) THEN ParseFail
        ELSE IF s[k] = DQ THEN
            LET r == ScanString(s, k + 1, <<>>)
            IN  [ok |-> r.ok, val |-> JStr(r.val), next |-> r.next]
        ELSE IF s[k] = "[" THEN ParseElems(s, k + 1, <<>>)
        ELSE IF s[k] = "{" THEN ParseMembers(s, k + 1, <<>>)
        ELSE ParseFail

\* json.load: the value the text denotes.
JsonLoad(text) == ParseValue(text, 1).val

(***************************************************************************)
(* The progress record: {"uploaded": [...], "failed": [{"filename": ...,    *)
(* "error": ...}, ...], "skipped": [...]}.                                 *)
(***************************************************************************)
K_uploaded == <<"u", "p", "l", "o", "a", "d", "e", "d">>

K_failed == <<"f", "a", "i", "l", "e", "d">>

K_skipped == <<"s", "k", "i", "p", "p", "e", "d">>

K_filename == <<"f", "i", "l", "e", "n", "a", "m", "e">>

K_error == <<"e", "r", "r", "o", "r">>

EmptyProgress == [uploaded |-> <<>>, failed |-> <<>>, skipped |-> <<>>]

RECURSIVE StrItems(_)
StrItems(names) ==
    IF names = <<>> THEN <<>> ELSE <<JStr(Head(names))>> \o StrItems(Tail(names))

RECURSIVE FailedItems(_)
FailedItems(fs) ==
    IF fs = <<>> THEN <<>>
    ELSE <<JObj(<< <<K_filename, JStr(Head(fs).filename)>>,
                   <<K_error, JStr(Head(fs).error)>> >>)>>
         \o FailedItems(Tail(fs))

\* The dict `progress` as a JSON value, keys in insertion order.
ProgressToJson(p) ==
    JObj(<< <<K_uploaded, JArr(StrItems(p.uploaded))>>,
            <<K_failed, JArr(FailedItems(p.failed))>>,
            <<K_skipped, JArr(StrItems(p.skipped))>> >>)

\* dict lookup obj[key]: the value of the last member with that key.
RECURSIVE Lookup(_, _, _)
Lookup(members, key, k) ==
    IF k = 0 THEN JArr(<<>>)
    ELSE IF members[k][1] = key THEN members[k][2]
    ELSE Lookup(members, key, k - 1)

JsonGet(obj, key) == Lookup(obj.v, key, Len(obj.v))

RECURSIVE ItemsToStr(_)
ItemsToStr(items) ==
    IF items = <<>> THEN <<>> ELSE <<Head(items).v>> \o ItemsToStr(Tail(items))

RECURSIVE ItemsToFailed(_)
ItemsToFailed(items) ==
    IF items = <<>> THEN <<>>
    ELSE <<[filename |-> JsonGet(Head(items), K_filename).v,
            error |-> JsonGet(Head(items), K_error).v]>>
         \o ItemsToFailed(Tail(items))

\* The loaded dict read through progress["uploaded"], ["failed"], ["skipped"].
ProgressFromJson(obj) ==
    [uploaded |-> ItemsToStr(JsonGet(obj, K_uploaded).v),
     failed   |-> ItemsToFailed(JsonGet(obj, K_failed).v),
     skipped  |-> ItemsToStr(JsonGet(obj, K_skipped).v)]

NoFile == [exists |-> FALSE, text |-> <<>>]

\* load_progress(progress_file)
load_progress(f) ==
    IF f.exists THEN ProgressFromJson(JsonLoad(f.text)) ELSE EmptyProgress

\* A slip: the "skipped" list is left out of what is written.
save_progress_WithoutSkipped(p) ==
    [exists |-> TRUE,
     text |-> JsonDump(JObj(<< <<K_uploaded, JArr(StrItems(p.uploaded))>>,
                               <<K_failed, JArr(FailedItems(p.failed))>> >>), 0)]

\* save_progress(progress_file, progress): the file after the write.
save_progress(p) == [exists |-> TRUE, text |-> JsonDump(ProgressToJson(p), 0)]

(***************************************************************************)
(* upload_to_commons.py: main.  One run is StartRun, then one step per row *)
(* of to_process, then Finish.  Each step is the whole loop body for that  *)
(* row, the save at its end included.  The remote site is opaque: what     *)
(* exists() and upload() answer is chosen freely.                          *)
(***************************************************************************)
MaxRows == 2

MaxRuns == 2

\* The values of --start and --limit tried (0 is "not given").
StartChoices == {0, 1}

LimitChoices == {0, 1}

Filenames == {<<"a">>, <<"b">>}

MSG_FileNotFound ==
    <<"F", "i", "l", "e", " ", "n", "o", "t", " ", "f", "o", "u", "n", "d">>

MSG_UploadFalse ==
    <<"U", "p", "l", "o", "a", "d", " ", "r", "e", "t", "u", "r", "n", "e", "d",
      " ", "F", "a", "l", "s", "e">>

\* str(e) of the exceptions upload() raises: a rate-limit message, and one
\* whose characters need escaping in JSON.
ErrorMessages == {<<"R", "a", "t", "e", " ", "l", "i", "m", "i", "t">>,
                  <<"e", DQ, BS, "n", NL>>,
                  <<"T", "H", "R", "O", "T", "T", "L", "E">>,
                  <<"r", "a", "t">>}

\* DELAY_SECONDS = 2: the pause between uploads.
DELAY_SECONDS == 2

\* time.sleep(30) after a rate-limit error.
RateLimitWait == 30

\* The events of a loop body, in order: <<operation, seconds>>.
Ev(op) == <<op, 0>>

Sleep(secs) == <<"sleep", secs>>

KW_rate == <<"r", "a", "t", "e">>

KW_throttle == <<"t", "h", "r", "o", "t", "t", "l", "e">>

\* error_msg.lower()
error_msg_lower(error_msg) == [k \in 1..Len(error_msg) |-> LowerChar(error_msg[k])]

\* A slip: only "rate" is looked for.
IsRateLimited_OnlyRate(error_msg) == Contains(error_msg_lower(error_msg), KW_rate)

\* "rate" in error_msg.lower() or "throttle" in error_msg.lower()
IsRateLimited(error_msg) ==
    \/ Contains(error_msg_lower(error_msg), KW_rate)
    \/ Contains(error_msg_lower(error_msg), KW_throttle)

RECURSIVE SeqsUpTo(_, _)
\* All sequences over S of length at most n.
SeqsUpTo(S, n) ==
    IF n = 0 THEN {<<>>}
    ELSE LET shorter == SeqsUpTo(S, n - 1)
         IN  shorter \cup {Append(q, x) : q \in {r \in shorter : Len(r) = n - 1}, x \in S}

\* to_process = rows[start : start + limit], limit = len(rows) when 0.
to_process ==
    LET limit == IF args.limit > 0 THEN args.limit ELSE Len(rows)
    IN  Slice(rows, args.start, args.start + limit)

\* row["filename"] of the row the loop is at.
filename == to_process[i + 1]

InLoop == upc = "loop" /\ i < Len(to_process)

UploadStart(rs, files) ==
    /\ progress_file = NoFile
    /\ rows = rs
    /\ local_files = files
    /\ args = [dry_run |-> FALSE, start |-> 0, limit |-> 0]
    /\ upc = "idle"
    /\ progress = EmptyProgress
    /\ already_uploaded = {}
    /\ i = 0
    /\ counts = [uploaded |-> 0, failed |-> 0, skipped |-> 0]
    /\ calls = {}
    /\ run_no = 0
    /\ prev_uploads = {}
    /\ file_at_start = NoFile
    /\ processed = <<>>
    /\ timeline = <<>>

\* A slip: the skip set taken from the "skipped" list.
AlreadyUploaded_FromSkipped(p) == Range(p.skipped)

\* already_uploaded = set(progress["uploaded"])
AlreadyUploaded(p) == Range(p.uploaded)

\* The calls made before the loop: site.login() unless --dry-run.
LoginCalls(dry_run) == IF dry_run THEN {} ELSE {<<"login", <<>>>>}

\* main up to the loop: parse the flags, load the progress, log in.
StartRun ==
    /\ upc \in {"idle", "done"}
    /\ run_no < MaxRuns
    /\ \E d \in BOOLEAN, st \in StartChoices, lim \in LimitChoices :
         /\ args' = [dry_run |-> d, start |-> st, limit |-> lim]
         /\ calls' = LoginCalls(d)
    /\ progress' = load_progress(progress_file)
    /\ already_uploaded' = AlreadyUploaded(progress')
    /\ i' = 0
    /\ counts' = [uploaded |-> 0, failed |-> 0, skipped |-> 0]
    /\ upc' = "loop"
    /\ run_no' = run_no + 1
    /\ prev_uploads' = prev_uploads \cup {c[2] : c \in {x \in calls : x[1] = "uploaded"}}
    /\ file_at_start' = progress_file
    /\ processed' = <<>>
    /\ timeline' = <<>>
    /\ UNCHANGED <<progress_file, rows, local_files>>
    /\ UploadOnly

\* What every loop step does besides its own branch: `continue` or fall
\* through to the next index.
NextRow ==
    /\ i' = i + 1
    /\ processed' = Append(processed, i + 1)
    /\ UNCHANGED <<rows, local_files, args, upc, already_uploaded, run_no,
                   prev_uploads, file_at_start>>
    /\ UploadOnly

\* if filename in already_uploaded: skipped_count += 1; continue
SkipAlreadyUploaded ==
    /\ InLoop
    /\ filename \in already_uploaded
    /\ counts' = [counts EXCEPT !.skipped = @ + 1]
    /\ timeline' = <<>>
    /\ NextRow
    /\ UNCHANGED <<progress, progress_file, calls>>

\* if not filepath.exists(): record the failure; continue
FileNotFound ==
    /\ InLoop
    /\ filename \notin already_uploaded
    /\ filename \notin local_files
    /\ progress' = [progress EXCEPT !.failed =
                        Append(@, [filename |-> filename, error |-> MSG_FileNotFound])]
    /\ counts' = [counts EXCEPT !.failed = @ + 1]
    /\ timeline' = <<Ev("record")>>
    /\ NextRow
    /\ UNCHANGED <<progress_file, calls>>

\* The row reaches the code below the local-file check.
RowHasFile ==
    /\ InLoop
    /\ filename \notin already_uploaded
    /\ filename \in local_files

\* if args.dry_run: print the preview; uploaded_count += 1; continue
DryRunPreview ==
    /\ RowHasFile
    /\ args.dry_run
    /\ counts' = [counts EXCEPT !.uploaded = @ + 1]
    /\ timeline' = <<>>
    /\ NextRow
    /\ UNCHANGED <<progress, progress_file, calls>>

\* A slip: the dry-run branch does not `continue`.
RowGoesRemote_InDryRunToo == RowHasFile

\* The row reaches the remote calls.
RowGoesRemote == RowHasFile /\ ~args.dry_run

\* page.exists() is true: record the skip, save, continue
ExistsOnCommons ==
    /\ RowGoesRemote
    /\ progress' = [progress EXCEPT !.skipped = Append(@, filename)]
    /\ counts' = [counts EXCEPT !.skipped = @ + 1]
    /\ progress_file' = save_progress(progress')
    /\ calls' = calls \cup {<<"exists", filename>>, <<"save", filename>>}
    /\ timeline' = <<Ev("exists"), Ev("record"), Ev("save")>>
    /\ NextRow

\* The end of the loop body: if not args.dry_run: save_progress(...)
SaveAfterUpload(p) == IF args.dry_run THEN progress_file ELSE save_progress(p)

\* if i < len(to_process) - 1: time.sleep(DELAY_SECONDS)
InterUploadDelay == IF i < Len(to_process) - 1 THEN <<Sleep(DELAY_SECONDS)>> ELSE <<>>

\* The events of the end of the loop body: the save, then the delay.
LoopTail == (IF args.dry_run THEN <<>> ELSE <<Ev("save")>>) \o InterUploadDelay

\* if rate-limited: time.sleep(30), inside the except clause.
RateLimitBackoff(error_msg) ==
    IF IsRateLimited(error_msg) THEN <<Sleep(RateLimitWait)>> ELSE <<>>

\* page.exists() is false or raises (the warning is printed), and upload()
\* returns True.
UploadSucceeds ==
    /\ RowGoesRemote
    /\ progress' = [progress EXCEPT !.uploaded = Append(@, filename)]
    /\ counts' = [counts EXCEPT !.uploaded = @ + 1]
    /\ progress_file' = SaveAfterUpload(progress')
    /\ calls' = calls \cup {<<"exists", filename>>, <<"upload", filename>>,
                            <<"uploaded", filename>>, <<"save", filename>>}
    /\ timeline' = <<Ev("exists"), Ev("upload"), Ev("true"), Ev("record")>> \o LoopTail
    /\ NextRow

\* upload() returns False.
UploadReturnsFalse ==
    /\ RowGoesRemote
    /\ progress' = [progress EXCEPT !.failed =
                        Append(@, [filename |-> filename, error |-> MSG_UploadFalse])]
    /\ counts' = [counts EXCEPT !.failed = @ + 1]
    /\ progress_file' = SaveAfterUpload(progress')
    /\ calls' = calls \cup {<<"exists", filename>>, <<"upload", filename>>,
                            <<"save", filename>>}
    /\ timeline' = <<Ev("exists"), Ev("upload"), Ev("false"), Ev("record")>> \o LoopTail
    /\ NextRow

\* A slip: no except clause, the exception ends the run.
UploadRaises_Aborts ==
    /\ RowGoesRemote
    /\ upc' = "done"
    /\ calls' = calls \cup {<<"exists", filename>>, <<"upload", filename>>}
    /\ UNCHANGED <<progress_file, rows, local_files, args, progress,
                   already_uploaded, i, counts, run_no, prev_uploads,
                   file_at_start, processed, timeline>>
    /\ UploadOnly

\* upload() raises: except Exception as e: record str(e).
UploadRaises ==
    /\ RowGoesRemote
    /\ \E error_msg \in ErrorMessages :
         /\ progress' = [progress EXCEPT !.failed =
                            Append(@, [filename |-> filename, error |-> error_msg])]
         /\ timeline' = <<Ev("exists"), Ev("upload"), Ev("raise"), Ev("record")>>
                            \o RateLimitBackoff(error_msg) \o LoopTail
    /\ counts' = [counts EXCEPT !.failed = @ + 1]
    /\ progress_file' = SaveAfterUpload(progress')
    /\ calls' = calls \cup {<<"exists", filename>>, <<"upload", filename>>,
                            <<"save", filename>>}
    /\ NextRow

\* The loop is exhausted: print the summary.
Finish ==
    /\ upc = "loop"
    /\ i = Len(to_process)
    /\ upc' = "done"
    /\ UNCHANGED <<progress_file, rows, local_files, args, progress,
                   already_uploaded, i, counts, calls, run_no, prev_uploads,
                   file_at_start, processed, timeline>>
    /\ UploadOnly

UploadNext ==
    \/ StartRun
    \/ SkipAlreadyUploaded
    \/ FileNotFound
    \/ DryRunPreview
    \/ ExistsOnCommons
    \/ UploadSucceeds
    \/ UploadReturnsFalse
    \/ UploadRaises
    \/ Finish

(***************************************************************************)
(* load_progress after save_progress, on records drawn from a bounded set. *)
(***************************************************************************)
MaxListLen == 2

\* Names and messages, some with characters JSON escapes.
RoundTripNames == {<<"a">>, <<"b", DQ, BS, "n">>}

RoundTripErrors == {MSG_FileNotFound, <<"e", NL, BS, DQ, TAB>>}

RoundTripFailed ==
    {[filename |-> f, error |-> e] : f \in RoundTripNames, e \in RoundTripErrors}

ProgressRecords ==
    {[uploaded |-> u, failed |-> f, skipped |-> k] :
        u \in SeqsUpTo(RoundTripNames, MaxListLen),
        f \in SeqsUpTo(RoundTripFailed, MaxListLen),
        k \in SeqsUpTo(RoundTripNames, MaxListLen)}

RoundTripStart(p) ==
    /\ rt_record = p
    /\ rt_file = NoFile
    /\ rt_loaded = EmptyProgress
    /\ rt_pc = "new"

\* load_progress when upload_progress.json does not exist.
LoadMissing ==
    /\ rt_pc = "new"
    /\ rt_loaded' = load_progress(rt_file)
    /\ rt_pc' = "missing"
    /\ UNCHANGED <<rt_record, rt_file>>
    /\ RoundTripOnly

\* save_progress(progress_file, p)
SaveRecord ==
    /\ rt_pc \in {"new", "missing"}
    /\ rt_file' = save_progress(rt_record)
    /\ rt_pc' = "saved"
    /\ UNCHANGED <<rt_record, rt_loaded>>
    /\ RoundTripOnly

\* load_progress(progress_file) of the file just saved.
LoadSaved ==
    /\ rt_pc = "saved"
    /\ rt_loaded' = load_progress(rt_file)
    /\ rt_pc' = "loaded"
    /\ UNCHANGED <<rt_record, rt_file>>
    /\ RoundTripOnly

\* save_progress of the record just loaded.
SaveLoaded ==
    /\ rt_pc = "loaded"
    /\ rt_file' = save_progress(rt_loaded)
    /\ rt_pc' = "resaved"
    /\ UNCHANGED <<rt_record, rt_loaded>>
    /\ RoundTripOnly

RoundTripNext == LoadMissing \/ SaveRecord \/ LoadSaved \/ SaveLoaded

(***************************************************************************)
(* download_images.py: fetch_images_from_api.  The catalogue holds         *)
(* `catalogue` results, numbered 1..catalogue; page p of size 100 is the   *)
(* p-th slice of them, empty beyond the end.                               *)
(***************************************************************************)
PageSize == 100

MaxCatalogue == 205

\* data.get("results", []) of the response to page p.
ApiPage(n, p) ==
    LET lo == (p - 1) * PageSize
        hi == Min(p * PageSize, n)
    IN  IF hi <= lo THEN <<>> ELSE [k \in 1..(hi - lo) |-> lo + k]

FetchStart(n) ==
    /\ catalogue = n
    /\ page = 1
    /\ all_images = <<>>
    /\ requested = <<>>
    /\ fpc = "fetch"

\* A slip: stop only on an empty page.
IsLastPage_OnlyWhenEmpty(results) == Len(results) = 0

\* if len(results) < 100: break
IsLastPage(results) == Len(results) < PageSize

\* One pass of the while loop: request the page, extend, break or go on.
FetchPage ==
    /\ fpc = "fetch"
    /\ LET results == ApiPage(catalogue, page)
       IN  /\ all_images' = all_images \o results
           /\ requested' = Append(requested, page)
           /\ IF IsLastPage(results)
              THEN fpc' = "done" /\ page' = page
              ELSE fpc' = "fetch" /\ page' = page + 1
    /\ UNCHANGED catalogue
    /\ FetchOnly

FetchNext == FetchPage

(***************************************************************************)
(* download_images.py: make_commons_filename.                              *)
(***************************************************************************)
\* The characters the first re.sub replaces by a space: [:()/\\,\.\'\"\[\]{}!?;]
Punctuation ==
    {":", "(", ")", "/", BS, ",", ".", "'", DQ, "[", "]", "{", "}", "!", "?", ";"}

\* What \s and str.strip() take for whitespace.
Whitespace == {" ", TAB, NL, "\r"}

\* str.strip(chars) / str.rstrip(chars)
Strip(s, chars) ==
    LET keep == {k \in 1..Len(s) : s[k] \notin chars}
    IN  IF keep = {} THEN <<>>
        ELSE SubSeq(s, CHOOSE k \in keep : \A m \in keep : k <= m,
                       CHOOSE k \in keep : \A m \in keep : k >= m)

RStrip(s, chars) ==
    LET keep == {k \in 1..Len(s) : s[k] \notin chars}
    IN  IF keep = {} THEN <<>>
        ELSE SubSeq(s, 1, CHOOSE k \in keep : \A m \in keep : k >= m)

\* re.sub of single characters: each character of `chars` becomes `by`.
ReplaceChars(s, chars, by) ==
    [k \in 1..Len(s) |-> IF s[k] \in chars THEN by ELSE s[k]]

RECURSIVE CollapseRange(_, _, _, _, _)
\* The part of CollapseRuns that positions lo..hi of s give (halving the
\* range keeps the nesting shallow).
CollapseRange(s, lo, hi, chars, by) ==
    IF lo > hi THEN <<>>
    ELSE IF lo = hi THEN
        IF s[lo] \notin chars THEN <<s[lo]>>
        ELSE IF lo > 1 /\ s[lo - 1] \in chars THEN <<>>
        ELSE <<by>>
    ELSE LET mid == (lo + hi) \div 2
         IN  CollapseRange(s, lo, mid, chars, by)
                 \o CollapseRange(s, mid + 1, hi, chars, by)

\* re.sub(r"X+", by, s): each maximal run of characters of `chars` becomes
\* one `by`.
CollapseRuns(s, chars, by) == CollapseRange(s, 1, Len(s), chars, by)

\* Python s[:n], n of either sign.
SliceTo(s, n) ==
    IF n >= 0 THEN Slice(s, 0, n) ELSE Slice(s, 0, Max(0, Len(s) + n))

FilenameCeiling == 200

\* f"_Wellcome_{miro_number}.jpg"
Suffix(miro_number) ==
    <<"_", "W", "e", "l", "l", "c", "o", "m", "e", "_">> \o miro_number
        \o <<".", "j", "p", "g">>

\* A slip: no room reserved for the suffix.
MaxLen_NoReserve(miro_number) == FilenameCeiling

\* max_len = 200 - len(f"_Wellcome_{miro_number}.jpg")
MaxLen(miro_number) == FilenameCeiling - Len(Suffix(miro_number))

make_commons_filename(title, miro_number) ==
    LET n1 == Strip(title, Whitespace)
        n2 == ReplaceChars(n1, Punctuation, " ")
        n3 == Strip(CollapseRuns(n2, Whitespace, " "), Whitespace)
        n4 == ReplaceChars(n3, {" "}, "_")
        n5 == Strip(CollapseRuns(n4, {"_"}, "_"), {"_"})
        max_len == MaxLen(miro_number)
        n6 == IF Len(n5) > max_len THEN RStrip(SliceTo(n5, max_len), {"_"}) ELSE n5
    IN  n6 \o Suffix(miro_number)

\* The first n characters of unit repeated.
Fill(unit, n) == [k \in 1..n |-> unit[((k - 1) % Len(unit)) + 1]]

\* Titles: a lead, a body of a repeated unit, a tail.
TitleEnds == {<<>>, <<" ">>, <<"_", ":">>}

TitleUnits == {<<"a">>, <<"a", " ">>, <<"a", "_", "_">>, <<"(", "b", ")", TAB>>, <<"_">>}

\* How far past max_len the body of a title may reach.
MaxOver == 3

\* The lengths of miro numbers tried: none, typical, and around the length
\* (186) whose suffix alone fills the 200 characters.
MiroLens == {0, 1, 8, 185, 186, 187, 195}

\* The body lengths tried for a miro number: short ones, those around
\* max_len, and those around twice max_len (for bodies that sanitising
\* halves).
BodyLens(miro_number) ==
    LET max_len == MaxLen(miro_number)
    IN  {0, 1, 2, 5} \cup
        {n \in (max_len - 3)..(max_len + MaxOver) : n >= 0} \cup
        {n \in (2 * max_len - 1)..(2 * max_len + MaxOver) : n >= 0}

NameStart(t, m) ==
    /\ fn_title = t
    /\ fn_miro = m
    /\ fn_result = <<>>
    /\ fn_pc = "call"

MakeFilename ==
    /\ fn_pc = "call"
    /\ fn_result' = make_commons_filename(fn_title, fn_miro)
    /\ fn_pc' = "done"
    /\ UNCHANGED <<fn_title, fn_miro>>
    /\ NameOnly

NameNext == MakeFilename

(***************************************************************************)
(* upload_to_commons.py: build_wikitext, the disease category.             *)
(***************************************************************************)
\* A slip: the title is matched as it is written.
title_lower_Unfolded(title) == title

\* title_lower = title.lower()
title_lower(title) == [k \in 1..Len(title) |-> LowerChar(title[k])]

KW_leprosy == <<"l", "e", "p", "r", "o", "s", "y">>

KW_lepromatous == <<"l", "e", "p", "r", "o", "m", "a", "t", "o", "u", "s">>

KW_schistosomiasis == <<"s", "c", "h", "i", "s", "t", "o", "s", "o", "m", "i", "a", "s", "i", "s">>

KW_amoebiasis == <<"a", "m", "o", "e", "b", "i", "a", "s", "i", "s">>

KW_amoebic == <<"a", "m", "o", "e", "b", "i", "c">>

KW_leishmaniasis == <<"l", "e", "i", "s", "h", "m", "a", "n", "i", "a", "s", "i", "s">>

KW_kala_azar == <<"k", "a", "l", "a", " ", "a", "z", "a", "r">>

KW_histoplasmosis == <<"h", "i", "s", "t", "o", "p", "l", "a", "s", "m", "o", "s", "i", "s">>

KW_tuberculosis == <<"t", "u", "b", "e", "r", "c", "u", "l", "o", "s", "i", "s">>

KW_tuberculous == <<"t", "u", "b", "e", "r", "c", "u", "l", "o", "u", "s">>

KW_donovanosis == <<"d", "o", "n", "o", "v", "a", "n", "o", "s", "i", "s">>

KW_granuloma_inguinale == <<"g", "r", "a", "n", "u", "l", "o", "m", "a", " ", "i", "n", "g", "u", "i", "n", "a", "l", "e">>

KW_mycetoma == <<"m", "y", "c", "e", "t", "o", "m", "a">>

KW_pneumonia == <<"p", "n", "e", "u", "m", "o", "n", "i", "a">>

KW_pneumocystis == <<"p", "n", "e", "u", "m", "o", "c", "y", "s", "t", "i", "s">>

KW_aspergillosis == <<"a", "s", "p", "e", "r", "g", "i", "l", "l", "o", "s", "i", "s">>

KW_cryptococcosis == <<"c", "r", "y", "p", "t", "o", "c", "o", "c", "c", "o", "s", "i", "s">>

KW_trypanosomiasis == <<"t", "r", "y", "p", "a", "n", "o", "s", "o", "m", "i", "a", "s", "i", "s">>

KW_filariasis == <<"f", "i", "l", "a", "r", "i", "a", "s", "i", "s">>

KW_malaria == <<"m", "a", "l", "a", "r", "i", "a">>

KW_sickle_cell == <<"s", "i", "c", "k", "l", "e", " ", "c", "e", "l", "l">>

\* The if/elif chain that sets disease_cat.
disease_cat(title) ==
    LET tl == title_lower(title)
    IN
        IF Contains(tl, KW_leprosy) \/ Contains(tl, KW_lepromatous)
            THEN "Leprosy"
        ELSE IF Contains(tl, KW_schistosomiasis)
            THEN "Schistosomiasis"
        ELSE IF Contains(tl, KW_amoebiasis) \/ Contains(tl, KW_amoebic)
            THEN "Amoebiasis"
        ELSE IF Contains(tl, KW_leishmaniasis) \/ Contains(tl, KW_kala_azar)
            THEN "Leishmaniasis"
        ELSE IF Contains(tl, KW_histoplasmosis)
            THEN "Histoplasmosis"
        ELSE IF Contains(tl, KW_tuberculosis) \/ Contains(tl, KW_tuberculous)
            THEN "Tuberculosis"
        ELSE IF Contains(tl, KW_donovanosis) \/ Contains(tl, KW_granuloma_inguinale)
            THEN "Donovanosis"
        ELSE IF Contains(tl, KW_mycetoma)
            THEN "Mycetoma"
        ELSE IF Contains(tl, KW_pneumonia) \/ Contains(tl, KW_pneumocystis)
            THEN "Pneumonia"
        ELSE IF Contains(tl, KW_aspergillosis)
            THEN "Aspergillosis"
        ELSE IF Contains(tl, KW_cryptococcosis)
            THEN "Cryptococcosis"
        ELSE IF Contains(tl, KW_trypanosomiasis)
            THEN "Trypanosomiasis"
        ELSE IF Contains(tl, KW_filariasis)
            THEN "Filariasis"
        ELSE IF Contains(tl, KW_malaria)
            THEN "Malaria"
        ELSE IF Contains(tl, KW_sickle_cell)
            THEN "Sickle cell disease"
        ELSE "Pathology"

\* Pieces of titles: the keywords in upper, capitalised and lower case, and
\* text that holds none of them.
TitlePieces ==
    {<<"L", "E", "P", "R", "O", "S", "Y">>,
     <<"L", "e", "p", "r", "o", "m", "a", "t", "o", "u", "s">>,
     <<"S", "c", "h", "i", "s", "t", "o", "s", "o", "m", "i", "a", "s", "i", "s">>,
     <<"a", "m", "o", "e", "b", "i", "a", "s", "i", "s">>,
     <<"A", "M", "O", "E", "B", "I", "C">>,
     <<"L", "E", "I", "S", "H", "M", "A", "N", "I", "A", "S", "I", "S">>,
     <<"K", "a", "l", "a", " ", "a", "z", "a", "r">>,
     <<"H", "i", "s", "t", "o", "p", "l", "a", "s", "m", "o", "s", "i", "s">>,
     <<"t", "u", "b", "e", "r", "c", "u", "l", "o", "s", "i", "s">>,
     <<"T", "U", "B", "E", "R", "C", "U", "L", "O", "U", "S">>,
     <<"D", "O", "N", "O", "V", "A", "N", "O", "S", "I", "S">>,
     <<"G", "r", "a", "n", "u", "l", "o", "m", "a", " ", "i", "n", "g", "u", "i", "n", "a", "l", "e">>,
     <<"M", "y", "c", "e", "t", "o", "m", "a">>,
     <<"p", "n", "e", "u", "m", "o", "n", "i", "a">>,
     <<"P", "N", "E", "U", "M", "O", "C", "Y", "S", "T", "I", "S">>,
     <<"A", "S", "P", "E", "R", "G", "I", "L", "L", "O", "S", "I", "S">>,
     <<"C", "r", "y", "p", "t", "o", "c", "o", "c", "c", "o", "s", "i", "s">>,
     <<"t", "r", "y", "p", "a", "n", "o", "s", "o", "m", "i", "a", "s", "i", "s">>,
     <<"F", "I", "L", "A", "R", "I", "A", "S", "I", "S">>,
     <<"M", "a", "l", "a", "r", "i", "a">>,
     <<"s", "i", "c", "k", "l", "e", " ", "c", "e", "l", "l">>,
     <<"L", "i", "v", "e", "r">>,
     <<"l", "e", "p", "r", "o", "s">>,
     <<"K", "A", "L", "A", " ", " ", "A", "Z", "A", "R">>,
     <<" ", "o", "f", " ">>}

CatTitles ==
    {<<>>} \cup TitlePieces \cup {a \o <<" ">> \o b : a \in TitlePieces, b \in TitlePieces}

CatStart(t) ==
    /\ cat_title = t
    /\ cat_result = ""
    /\ cat_pc = "call"

ChooseCategory ==
    /\ cat_pc = "call"
    /\ cat_result' = disease_cat(cat_title)
    /\ cat_pc' = "done"
    /\ UNCHANGED cat_title
    /\ CatOnly

CatNext == ChooseCategory

(***************************************************************************)
(* download_images.py: fetch_work_details.  A request fails or succeeds by *)
(* its id.  The main thread's loop over as_completed is modelled one       *)
(* future at a time; the order in which the pool's futures complete is one *)
(* of two: as submitted, or reversed.                                      *)
(***************************************************************************)
WorkBatchSize == 50

MaxWorkIds == 52

\* The JSON of work w, and the {} recorded for a failure.
WorkData(w) == {<<"id", w>>}

EmptyDict == {}

Reverse(s) == [k \in 1..Len(s) |-> s[Len(s) + 1 - k]]

\* The failure patterns tried for n ids: none, all, the first, the last, and
\* the ids on either side of the first batch boundary.
FailingSets(n) ==
    {F \in {{}, 1..n, {1}, {n}, {WorkBatchSize}, {WorkBatchSize + 1}} : F \subseteq 1..n}

\* The lists of n ids tried: 1..n, and the same with the first id again in
\* the last place.
WorkIdLists(n) ==
    {[k \in 1..n |-> k], [k \in 1..n |-> IF k = n THEN 1 ELSE k]}

WorkStart(ids, F, order) ==
    /\ work_ids = ids
    /\ failing = F
    /\ completion = order
    /\ work_details = [w \in {} |-> EmptyDict]
    /\ w_start = 0
    /\ w_pending = <<>>
    /\ w_batches = 0
    /\ wpc = "batch"

\* work_details[wid] = value
SetDetail(d, wid, value) ==
    [w \in DOMAIN d \cup {wid} |-> IF w = wid THEN value ELSE d[w]]

\* batch = work_ids[start : start + batch_size]; submit every id of it.
SubmitWorkBatch ==
    /\ wpc = "batch"
    /\ w_start < Len(work_ids)
    /\ LET batch == Slice(work_ids, w_start, w_start + WorkBatchSize)
       IN  w_pending' = IF completion = "submitted" THEN batch ELSE Reverse(batch)
    /\ wpc' = "collect"
    /\ UNCHANGED <<work_ids, failing, completion, work_details, w_start, w_batches>>
    /\ WorkOnly

\* future.result() returns (wid, data): work_details[wid] = data
CollectResult ==
    /\ wpc = "collect"
    /\ w_pending # <<>>
    /\ Head(w_pending) \notin failing
    /\ work_details' = SetDetail(work_details, Head(w_pending), WorkData(Head(w_pending)))
    /\ w_pending' = Tail(w_pending)
    /\ UNCHANGED <<work_ids, failing, completion, w_start, w_batches, wpc>>
    /\ WorkOnly

\* A slip: the failure is swallowed and nothing is recorded.
RecordFailure_Pass(d, wid) == d

\* except Exception: wid = futures[future]; work_details[wid] = {}
RecordFailure(d, wid) == SetDetail(d, wid, EmptyDict)

\* future.result() raises.
CollectFailure ==
    /\ wpc = "collect"
    /\ w_pending # <<>>
    /\ Head(w_pending) \in failing
    /\ work_details' = RecordFailure(work_details, Head(w_pending))
    /\ w_pending' = Tail(w_pending)
    /\ UNCHANGED <<work_ids, failing, completion, w_start, w_batches, wpc>>
    /\ WorkOnly

\* The batch is collected: print, sleep, next start.
EndWorkBatch ==
    /\ wpc = "collect"
    /\ w_pending = <<>>
    /\ w_start' = w_start + WorkBatchSize
    /\ w_batches' = w_batches + 1
    /\ wpc' = "batch"
    /\ UNCHANGED <<work_ids, failing, completion, work_details, w_pending>>
    /\ WorkOnly

\* The range is exhausted: return work_details.
ReturnWorkDetails ==
    /\ wpc = "batch"
    /\ w_start >= Len(work_ids)
    /\ wpc' = "done"
    /\ UNCHANGED <<work_ids, failing, completion, work_details, w_start, w_pending,
                   w_batches>>
    /\ WorkOnly

WorkNext ==
    \/ SubmitWorkBatch
    \/ CollectResult
    \/ CollectFailure
    \/ EndWorkBatch
    \/ ReturnWorkDetails

(***************************************************************************)
(* download_images.py: build_csv_rows and download_images.  Every image    *)
(* belongs to a work; the work gives the title and the miro number, so two *)
(* images of one work get one filename.  A task is running from the moment *)
(* a worker takes it until its future is done.                             *)
(***************************************************************************)
DownloadBatchSize == 50

DownloadWorkers == 12

MinGoodSize == 1000

MaxImages == 3

Works == {1, 2}

\* img["source"]["title"] and the work's miro-image-number.
WorkTitle(w) == IF w = 1 THEN <<"L", "i", "v", "e", "r", ":", " ", "a">> ELSE <<"S", "k", "i", "n">>

WorkMiro(w) == IF w = 1 THEN <<"W", "1">> ELSE <<"W", "2">>

WorkFilename(w) == make_commons_filename(WorkTitle(w), WorkMiro(w))

\* The sizes of files found in output_dir, and of the bodies downloaded.
DiskSizes == {999, 1000, 1001}

ResponseSizes == {500, 2000}

InitialDisks ==
    UNION {[E -> DiskSizes] : E \in SUBSET {WorkFilename(w) : w \in Works}}

DownloadStart(imgs, disk) ==
    /\ dl_images = imgs
    /\ dl_disk = disk
    /\ dl_rows = <<>>
    /\ url_list = <<>>
    /\ dl_start = 0
    /\ dl_queue = <<>>
    /\ dl_running = {}
    /\ downloaded = 0
    /\ dpc = "build"

\* build_csv_rows: one row per image; the url is the image's own.
build_csv_rows(imgs) ==
    [k \in 1..Len(imgs) |-> [url |-> k, filename |-> WorkFilename(imgs[k])]]

BuildRows ==
    /\ dpc = "build"
    /\ dl_rows' = build_csv_rows(dl_images)
    /\ dpc' = "list"
    /\ UNCHANGED <<dl_images, dl_disk, url_list, dl_start, dl_queue, dl_running,
                   downloaded>>
    /\ DownloadOnly

\* A slip: only a missing file is downloaded.
NeedsDownload_MissingOnly(disk, name) == name \notin DOMAIN disk

\* not os.path.exists(filepath) or os.path.getsize(filepath) < 1000
NeedsDownload(disk, name) == name \notin DOMAIN disk \/ disk[name] < MinGoodSize

RECURSIVE SelectRows(_, _)
\* url_list: the rows that need a download, in row order.
SelectRows(rs, disk) ==
    IF rs = <<>> THEN <<>>
    ELSE (IF NeedsDownload(disk, Head(rs).filename) THEN <<Head(rs)>> ELSE <<>>)
         \o SelectRows(Tail(rs), disk)

\* The head of download_images: build url_list; return when it is empty.
ListDownloads ==
    /\ dpc = "list"
    /\ url_list' = SelectRows(dl_rows, dl_disk)
    /\ dpc' = IF url_list' = <<>> THEN "done" ELSE "batch"
    /\ UNCHANGED <<dl_images, dl_disk, dl_rows, dl_start, dl_queue, dl_running,
                   downloaded>>
    /\ DownloadOnly

\* batch = url_list[start : start + batch_size]; submit every pair of it.
SubmitDownloadBatch ==
    /\ dpc = "batch"
    /\ dl_start < Len(url_list)
    /\ dl_queue' = [k \in 1..(Min(dl_start + DownloadBatchSize, Len(url_list)) - dl_start)
                        |-> dl_start + k]
    /\ dl_running' = {}
    /\ dpc' = "collect"
    /\ UNCHANGED <<dl_images, dl_disk, dl_rows, url_list, dl_start, downloaded>>
    /\ DownloadOnly

\* A free worker of the pool takes the next submitted task.
TaskStarts ==
    /\ dpc = "collect"
    /\ dl_queue # <<>>
    /\ Cardinality(dl_running) < DownloadWorkers
    /\ dl_running' = dl_running \cup {Head(dl_queue)}
    /\ dl_queue' = Tail(dl_queue)
    /\ UNCHANGED <<dl_images, dl_disk, dl_rows, url_list, dl_start, downloaded, dpc>>
    /\ DownloadOnly

\* The file after open(filepath, "wb") and a write of `size` bytes.
WriteFile(disk, name, size) ==
    [f \in DOMAIN disk \cup {name} |-> IF f = name THEN size ELSE disk[f]]

\* download_one returns: the body is written; the main thread counts it.
TaskSucceeds ==
    /\ dpc = "collect"
    /\ \E t \in dl_running, size \in ResponseSizes :
         /\ dl_disk' = WriteFile(dl_disk, url_list[t].filename, size)
         /\ dl_running' = dl_running \ {t}
    /\ downloaded' = downloaded + 1
    /\ UNCHANGED <<dl_images, dl_rows, url_list, dl_start, dl_queue, dpc>>
    /\ DownloadOnly

\* download_one raises in urlopen, before the file is opened; the main
\* thread prints the failure.
TaskFails ==
    /\ dpc = "collect"
    /\ \E t \in dl_running : dl_running' = dl_running \ {t}
    /\ UNCHANGED <<dl_images, dl_disk, dl_rows, url_list, dl_start, dl_queue,
                   downloaded, dpc>>
    /\ DownloadOnly

\* Every future of the batch is done: print, sleep, next start.
EndDownloadBatch ==
    /\ dpc = "collect"
    /\ dl_queue = <<>>
    /\ dl_running = {}
    /\ dl_start' = dl_start + DownloadBatchSize
    /\ dpc' = "batch"
    /\ UNCHANGED <<dl_images, dl_disk, dl_rows, url_list, dl_queue, dl_running,
                   downloaded>>
    /\ DownloadOnly

\* The range is exhausted: print the total.
DownloadsDone ==
    /\ dpc = "batch"
    /\ dl_start >= Len(url_list)
    /\ dpc' = "done"
    /\ UNCHANGED <<dl_images, dl_disk, dl_rows, url_list, dl_start, dl_queue,
                   dl_running, downloaded>>
    /\ DownloadOnly

DownloadNext ==
    \/ BuildRows
    \/ ListDownloads
    \/ SubmitDownloadBatch
    \/ TaskStarts
    \/ TaskSucceeds
    \/ TaskFails
    \/ EndDownloadBatch
    \/ DownloadsDone

(***************************************************************************)
(* download_images.py: the batch loops of fetch_work_details,              *)
(* check_commons_existence and download_images.  Each takes the list in    *)
(* slices of batch_size, hands a slice to a ThreadPoolExecutor of          *)
(* max_workers threads inside a `with` block, and sleeps after the block.  *)
(* A request is in flight from the moment a worker takes it from the       *)
(* pool's queue until its future is done.  An idle thread takes a waiting  *)
(* request before any request in flight completes.  The network decides    *)
(* which request in flight completes next: in one run always the oldest,   *)
(* in another always the newest, in a third the two in turn.               *)
(***************************************************************************)
WorkWorkers == 10

CommonsBatchSize == 30

CommonsWorkers == 10

MaxSecondBatch == 1

PoolFunctions == {"fetch_work_details", "check_commons_existence", "download_images"}

\* batch_size of the function's loop.
batch_size(fn) ==
    CASE fn = "fetch_work_details" -> WorkBatchSize
      [] fn = "check_commons_existence" -> CommonsBatchSize
      [] fn = "download_images" -> DownloadBatchSize

\* ThreadPoolExecutor(max_workers=...) of the function's loop.
max_workers(fn) ==
    CASE fn = "fetch_work_details" -> WorkWorkers
      [] fn = "check_commons_existence" -> CommonsWorkers
      [] fn = "download_images" -> DownloadWorkers

\* The lengths of the list tried: empty, one item, a full batch, and a
\* full batch followed by a short one.
ItemCounts(fn) == {0, 1} \cup {batch_size(fn) + k : k \in 0..MaxSecondBatch}

\* The items whose request raises: none, the first, the last, all.
PoolFailingSets(n) == {{}, {1} \cap (1..n), {n} \cap (1..n), 1..n}

CompletionOrders == {"oldest", "newest", "in turn"}

PoolStart(fn, n, F, order) ==
    /\ pl_fn = fn
    /\ pl_items = n
    /\ pl_failing = F
    /\ pl_order = order
    /\ pl_start = 0
    /\ pl_queue = <<>>
    /\ pl_running = {}
    /\ pl_done = {}
    /\ pl_slept = 0
    /\ pl_peak = 0
    /\ ppc = "batch"

\* batch = items[start : start + batch_size]; executor.submit for each.
SubmitBatch ==
    /\ ppc = "batch"
    /\ pl_start < pl_items
    /\ pl_queue' = [k \in 1..(Min(pl_start + batch_size(pl_fn), pl_items) - pl_start)
                        |-> pl_start + k]
    /\ ppc' = "collect"
    /\ UNCHANGED <<pl_fn, pl_items, pl_failing, pl_order, pl_start, pl_running,
                   pl_done, pl_slept, pl_peak>>
    /\ PoolOnly

\* A thread of the pool is free and takes the next request of the queue.
RequestStarts ==
    /\ pl_queue # <<>>
    /\ Cardinality(pl_running) < max_workers(pl_fn)
    /\ pl_running' = pl_running \cup {Head(pl_queue)}
    /\ pl_queue' = Tail(pl_queue)
    /\ pl_peak' = Max(pl_peak, Cardinality(pl_running'))
    /\ UNCHANGED <<pl_fn, pl_items, pl_failing, pl_order, pl_start, pl_done,
                   pl_slept, ppc>>
    /\ PoolOnly

\* The requests in flight that may complete next.
NextToComplete ==
    LET oldest == pl_order = "oldest"
                    \/ (pl_order = "in turn" /\ Cardinality(pl_done) % 2 = 0)
    IN  {t \in pl_running : IF oldest
                            THEN \A u \in pl_running : t <= u
                            ELSE \A u \in pl_running : t >= u}

\* No thread of the pool is idle while a request waits in the queue.
NoIdleThread == pl_queue = <<>> \/ Cardinality(pl_running) >= max_workers(pl_fn)

\* The future of request t is done.
Completes(t) ==
    /\ NoIdleThread
    /\ pl_running' = pl_running \ {t}
    /\ pl_done' = pl_done \cup {t}
    /\ UNCHANGED <<pl_fn, pl_items, pl_failing, pl_order, pl_start, pl_queue,
                   pl_slept, pl_peak, ppc>>
    /\ PoolOnly

\* The request returns; future.result() gives its value.
RequestSucceeds ==
    \E t \in NextToComplete : t \notin pl_failing /\ Completes(t)

\* The request raises; future.result() raises and the except clause of the
\* loop takes it.
RequestRaises ==
    \E t \in NextToComplete : t \in pl_failing /\ Completes(t)

\* A slip: the block is left as soon as every request has been taken.
PoolDrained_AllTaken == pl_queue = <<>>

\* The `with` block is left: shutdown(wait=True) has waited for every
\* request submitted.
PoolDrained == pl_queue = <<>> /\ pl_running = {}

\* as_completed is exhausted and the block is left; time.sleep(0.5) begins.
EndBatch ==
    /\ ppc = "collect"
    /\ PoolDrained
    /\ ppc' = "sleep"
    /\ UNCHANGED <<pl_fn, pl_items, pl_failing, pl_order, pl_start, pl_queue,
                   pl_running, pl_done, pl_slept, pl_peak>>
    /\ PoolOnly

\* time.sleep(0.5) returns; the loop goes to the next start.
SleepElapsed ==
    /\ ppc = "sleep"
    /\ pl_slept' = pl_slept + 1
    /\ pl_start' = pl_start + batch_size(pl_fn)
    /\ ppc' = "batch"
    /\ UNCHANGED <<pl_fn, pl_items, pl_failing, pl_order, pl_queue, pl_running,
                   pl_done, pl_peak>>
    /\ PoolOnly

\* The range is exhausted: the function returns.
PoolReturns ==
    /\ ppc = "batch"
    /\ pl_start >= pl_items
    /\ ppc' = "done"
    /\ UNCHANGED <<pl_fn, pl_items, pl_failing, pl_order, pl_start, pl_queue,
                   pl_running, pl_done, pl_slept, pl_peak>>
    /\ PoolOnly

PoolNext ==
    \/ SubmitBatch
    \/ RequestStarts
    \/ RequestSucceeds
    \/ RequestRaises
    \/ EndBatch
    \/ SleepElapsed
    \/ PoolReturns

(***************************************************************************)
(* The specifications: one per script function, the others at rest.        *)
(***************************************************************************)
\* main of upload_to_commons.py: its inputs drawn from the bounded sets; the other functions not called.
UploadInit ==
    /\ \E rs \in SeqsUpTo(Filenames, MaxRows), files \in SUBSET Filenames :
          UploadStart(rs, files)
    /\ RoundTripStart(EmptyProgress)
    /\ FetchStart(0)
    /\ NameStart(<<>>, <<>>)
    /\ CatStart(<<>>)
    /\ WorkStart(<<>>, {}, "submitted")
    /\ DownloadStart(<<>>, <<>>)
    /\ PoolStart("fetch_work_details", 0, {}, "oldest")

\* load_progress and save_progress: its inputs drawn from the bounded sets; the other functions not called.
RoundTripInit ==
    /\ \E p \in ProgressRecords : RoundTripStart(p)
    /\ UploadStart(<<>>, {})
    /\ FetchStart(0)
    /\ NameStart(<<>>, <<>>)
    /\ CatStart(<<>>)
    /\ WorkStart(<<>>, {}, "submitted")
    /\ DownloadStart(<<>>, <<>>)
    /\ PoolStart("fetch_work_details", 0, {}, "oldest")

\* fetch_images_from_api: its inputs drawn from the bounded sets; the other functions not called.
FetchInit ==
    /\ \E n \in 0..MaxCatalogue : FetchStart(n)
    /\ UploadStart(<<>>, {})
    /\ RoundTripStart(EmptyProgress)
    /\ NameStart(<<>>, <<>>)
    /\ CatStart(<<>>)
    /\ WorkStart(<<>>, {}, "submitted")
    /\ DownloadStart(<<>>, <<>>)
    /\ PoolStart("fetch_work_details", 0, {}, "oldest")

\* make_commons_filename: its inputs drawn from the bounded sets; the other functions not called.
NameInit ==
    /\ \E ml \in MiroLens :
          LET m == Fill(<<"7">>, ml)
          IN  \E lead \in TitleEnds, unit \in TitleUnits, tail \in TitleEnds,
                 n \in BodyLens(m) :
                  NameStart(lead \o Fill(unit, n) \o tail, m)
    /\ UploadStart(<<>>, {})
    /\ RoundTripStart(EmptyProgress)
    /\ FetchStart(0)
    /\ CatStart(<<>>)
    /\ WorkStart(<<>>, {}, "submitted")
    /\ DownloadStart(<<>>, <<>>)
    /\ PoolStart("fetch_work_details", 0, {}, "oldest")

\* The disease category: its inputs drawn from the bounded sets; the other functions not called.
CatInit ==
    /\ \E t \in CatTitles : CatStart(t)
    /\ UploadStart(<<>>, {})
    /\ RoundTripStart(EmptyProgress)
    /\ FetchStart(0)
    /\ NameStart(<<>>, <<>>)
    /\ WorkStart(<<>>, {}, "submitted")
    /\ DownloadStart(<<>>, <<>>)
    /\ PoolStart("fetch_work_details", 0, {}, "oldest")

\* fetch_work_details: its inputs drawn from the bounded sets; the other functions not called.
WorkInit ==
    /\ \E n \in 0..MaxWorkIds :
          \E ids \in WorkIdLists(n), F \in FailingSets(n),
             order \in {"submitted", "reversed"} :
              WorkStart(ids, F, order)
    /\ UploadStart(<<>>, {})
    /\ RoundTripStart(EmptyProgress)
    /\ FetchStart(0)
    /\ NameStart(<<>>, <<>>)
    /\ CatStart(<<>>)
    /\ DownloadStart(<<>>, <<>>)
    /\ PoolStart("fetch_work_details", 0, {}, "oldest")

\* download_images: its inputs drawn from the bounded sets; the other functions not called.
DownloadInit ==
    /\ \E imgs \in SeqsUpTo(Works, MaxImages), disk \in InitialDisks :
          DownloadStart(imgs, disk)
    /\ UploadStart(<<>>, {})
    /\ RoundTripStart(EmptyProgress)
    /\ FetchStart(0)
    /\ NameStart(<<>>, <<>>)
    /\ CatStart(<<>>)
    /\ WorkStart(<<>>, {}, "submitted")
    /\ PoolStart("fetch_work_details", 0, {}, "oldest")

\* One of the three batch loops, on a list and failures drawn from the bounded sets.
PoolInit ==
    /\ \E fn \in PoolFunctions :
          \E n \in ItemCounts(fn) :
             \E F \in PoolFailingSets(n), order \in CompletionOrders :
                PoolStart(fn, n, F, order)
    /\ UploadStart(<<>>, {})
    /\ RoundTripStart(EmptyProgress)
    /\ FetchStart(0)
    /\ NameStart(<<>>, <<>>)
    /\ CatStart(<<>>)
    /\ WorkStart(<<>>, {}, "submitted")
    /\ DownloadStart(<<>>, <<>>)

SpecUpload == UploadInit /\ [][UploadNext]_vars

SpecRoundTrip == RoundTripInit /\ [][RoundTripNext]_vars

\* The loop runs on without anything to wait for, hence the weak fairness.
SpecFetch == FetchInit /\ [][FetchNext]_vars /\ WF_vars(FetchNext)

SpecName == NameInit /\ [][NameNext]_vars

SpecCat == CatInit /\ [][CatNext]_vars

SpecWork == WorkInit /\ [][WorkNext]_vars

SpecDownload == DownloadInit /\ [][DownloadNext]_vars

SpecPool == PoolInit /\ [][PoolNext]_vars

(***************************************************************************)
(* Properties of the upload run.                                           *)
(***************************************************************************)
InRun == upc \in {"loop", "done"}

\* The progress record as the run loaded it.
ProgressAtStart == load_progress(file_at_start)

\* C1 (as claimed): in a run without --dry-run, between rows and at the end
\* of the run, once the in-memory progress record differs from what the run
\* loaded, the checkpoint file holds exactly the in-memory record.
C1_CheckpointAfterEachItem ==
    (InRun /\ ~args.dry_run /\ progress # ProgressAtStart)
        => (progress_file.exists /\ load_progress(progress_file) = progress)

\* C2: a row whose filename the checkpoint listed as uploaded when the run
\* started is counted as skipped and gets no exists() or upload() call, and
\* no filename that upload() accepted in an earlier run is uploaded again.
C2_SkipAlreadyUploaded ==
    InRun =>
        LET recorded == Range(ProgressAtStart.uploaded)
        IN  /\ \A f \in recorded :
                  <<"exists", f>> \notin calls /\ <<"upload", f>> \notin calls
            /\ \A f \in prev_uploads : <<"upload", f>> \notin calls
            /\ counts.skipped >= Cardinality({k \in 1..i : to_process[k] \in recorded})

\* A second run that skips a recorded row and still uploads another one.
C2_Witness ==
    /\ upc = "done" /\ run_no = 2 /\ ~args.dry_run
    /\ \E k \in 1..Len(to_process) : to_process[k] \in Range(ProgressAtStart.uploaded)
    /\ \E f \in Filenames : <<"upload", f>> \in calls
    /\ counts.skipped >= 1

\* C3: every selected row is handled exactly once, in order; each failure
\* adds one {filename, error} entry to the failed list; the three counters
\* add up to the number of rows handled, and the run reaches the last row.
C3_FailuresDoNotAbort ==
    InRun =>
        LET before == Len(ProgressAtStart.failed)
        IN  /\ processed = [k \in 1..i |-> k]
            /\ counts.uploaded + counts.skipped + counts.failed = i
            /\ Len(progress.failed) = before + counts.failed
            /\ \A k \in (before + 1)..Len(progress.failed) :
                  progress.failed[k].filename \in Range(to_process)
            /\ (upc = "done" => i = Len(to_process))

\* A run whose first row fails with an exception and whose second row is
\* then uploaded.
C3_Witness ==
    /\ upc = "done" /\ Len(to_process) = 2
    /\ counts = [uploaded |-> 1, failed |-> 1, skipped |-> 0]
    /\ progress.failed[Len(progress.failed)].filename = to_process[1]
    /\ progress.failed[Len(progress.failed)].error \in ErrorMessages
    /\ progress.uploaded[Len(progress.uploaded)] = to_process[2]

\* C8: with --dry-run no login, exists() or upload() call is made and the
\* checkpoint file is never written: it is what it was when the run started.
C8_DryRunNoEffects ==
    (InRun /\ args.dry_run) => (calls = {} /\ progress_file = file_at_start)

\* A finished dry run over an existing checkpoint that previewed one row and
\* found another row's file missing.
C8_Witness ==
    /\ upc = "done" /\ args.dry_run /\ file_at_start.exists
    /\ counts.uploaded >= 1 /\ counts.failed >= 1
    /\ progress # ProgressAtStart

(***************************************************************************)
(* Properties of the progress file round trip.                             *)
(***************************************************************************)
\* C7: load_progress after save_progress(p) returns p; saving the record
\* just loaded writes the same file content again; and when no file exists
\* load_progress returns the record with three empty lists.
C7_ProgressRoundTrip ==
    /\ rt_pc = "missing" => rt_loaded = EmptyProgress
    /\ rt_pc \in {"loaded", "resaved"} => rt_loaded = rt_record
    /\ rt_pc = "resaved" => rt_file = save_progress(rt_record)

\* A record with text that JSON escapes went through save, load and save.
C7_Witness ==
    /\ rt_pc = "resaved"
    /\ Len(rt_record.failed) = 2 /\ Len(rt_record.uploaded) >= 1
    /\ \E k \in 1..2 : BS \in Range(rt_record.failed[k].error)
    /\ rt_loaded = rt_record

(***************************************************************************)
(* Properties of the paginated fetch.                                      *)
(***************************************************************************)
\* The pages the loop has asked for are 1, 2, 3, ... and every page before
\* the last one asked for was full; the results gathered are the pages'
\* results in page order; once done, the last page asked for was short and
\* the whole catalogue has been returned.
FetchSafety ==
    /\ requested = [k \in 1..Len(requested) |-> k]
    /\ \A k \in 1..(Len(requested) - 1) :
          Len(ApiPage(catalogue, requested[k])) = PageSize
    /\ all_images = Concat([k \in 1..Len(requested) |-> ApiPage(catalogue, requested[k])])
    /\ fpc = "done" =>
          /\ Len(requested) >= 1
          /\ Len(ApiPage(catalogue, requested[Len(requested)])) < PageSize
          /\ all_images = [k \in 1..catalogue |-> k]

\* C4: the fetch asks for pages 1, 2, 3, ... in order, stops right after the
\* first page with fewer than 100 results, returns the pages' results in
\* page order, and on a finite catalogue always terminates.
C4_PaginatedFetch == []FetchSafety /\ <>(fpc = "done")

\* A fetch that ended on a short third page after two full ones.
C4_Witness ==
    /\ fpc = "done" /\ requested = <<1, 2, 3>>
    /\ Len(all_images) > 2 * PageSize

(***************************************************************************)
(* Properties of make_commons_filename.                                    *)
(***************************************************************************)
EndsWith(s, e) == Len(s) >= Len(e) /\ SubSeq(s, Len(s) - Len(e) + 1, Len(s)) = e

\* The longest miro number whose suffix fits the ceiling: 200 - 10 - 4.
LongestMiro == FilenameCeiling - Len(Suffix(<<>>))

\* C5 (as claimed): for any title and any miro number the name is at most
\* 200 characters long and ends with _Wellcome_<miro_number>.jpg.
C5_AnyMiroNumber ==
    fn_pc = "done" =>
        /\ Len(fn_result) <= FilenameCeiling
        /\ EndsWith(fn_result, Suffix(fn_miro))

\* C5 (amended): for any title the name ends with _Wellcome_<miro_number>.jpg,
\* and it is at most 200 characters long when the miro number is at most 186
\* characters long.
C5_FilenameWithinCeiling ==
    fn_pc = "done" =>
        /\ EndsWith(fn_result, Suffix(fn_miro))
        /\ Len(fn_miro) <= LongestMiro => Len(fn_result) <= FilenameCeiling

\* A title with punctuation, longer after sanitising than the room left by
\* an 8-character miro number, was cut so that the name is exactly 200 long.
C5_Witness ==
    /\ fn_pc = "done"
    /\ Len(fn_miro) = 8
    /\ \E k \in 1..Len(fn_title) : fn_title[k] \in Punctuation
    /\ \E k \in 1..Len(fn_title) : fn_title[k] \in Whitespace
    /\ Len(fn_title) > 2 * MaxLen(fn_miro)
    /\ Len(fn_result) = FilenameCeiling

(***************************************************************************)
(* Properties of the disease category.                                     *)
(***************************************************************************)
\* The keyword table in the order the categories are tried.
CategoryTable ==
    <<[keywords |-> {KW_leprosy, KW_lepromatous}, cat |-> "Leprosy"],
      [keywords |-> {KW_schistosomiasis}, cat |-> "Schistosomiasis"],
      [keywords |-> {KW_amoebiasis, KW_amoebic}, cat |-> "Amoebiasis"],
      [keywords |-> {KW_leishmaniasis, KW_kala_azar}, cat |-> "Leishmaniasis"],
      [keywords |-> {KW_histoplasmosis}, cat |-> "Histoplasmosis"],
      [keywords |-> {KW_tuberculosis, KW_tuberculous}, cat |-> "Tuberculosis"],
      [keywords |-> {KW_donovanosis, KW_granuloma_inguinale}, cat |-> "Donovanosis"],
      [keywords |-> {KW_mycetoma}, cat |-> "Mycetoma"],
      [keywords |-> {KW_pneumonia, KW_pneumocystis}, cat |-> "Pneumonia"],
      [keywords |-> {KW_aspergillosis}, cat |-> "Aspergillosis"],
      [keywords |-> {KW_cryptococcosis}, cat |-> "Cryptococcosis"],
      [keywords |-> {KW_trypanosomiasis}, cat |-> "Trypanosomiasis"],
      [keywords |-> {KW_filariasis}, cat |-> "Filariasis"],
      [keywords |-> {KW_malaria}, cat |-> "Malaria"],
      [keywords |-> {KW_sickle_cell}, cat |-> "Sickle cell disease"]>>

\* kw occurs in title when letter case is ignored.
OccursIgnoringCase(title, kw) ==
    \E k \in 1..(Len(title) - Len(kw) + 1) :
        \A j \in 1..Len(kw) : LowerChar(title[k + j - 1]) = LowerChar(kw[j])

\* The category of the first table entry one of whose keywords occurs in
\* the title, and Pathology when none does.
FirstMatch(title) ==
    LET hits == {n \in 1..Len(CategoryTable) :
                    \E kw \in CategoryTable[n].keywords : OccursIgnoringCase(title, kw)}
    IN  IF hits = {} THEN "Pathology"
        ELSE CategoryTable[CHOOSE n \in hits : \A m \in hits : n <= m].cat

\* C6: the category chosen is that of the first keyword, in table order,
\* that occurs in the title whatever its letter case, and Pathology when no
\* keyword occurs.
C6_FirstKeywordWins == cat_pc = "done" => cat_result = FirstMatch(cat_title)

\* A title in capitals that names two diseases, the later one of the table
\* first.
C6_Witness ==
    /\ cat_pc = "done"
    /\ cat_result = "Leprosy"
    /\ Contains(cat_title, <<"M", "a", "l", "a", "r", "i", "a", " ", "L", "E", "P">>)

(***************************************************************************)
(* Properties of fetch_work_details.                                       *)
(***************************************************************************)
\* C9: the mapping returned has exactly the ids asked for as its keys, the
\* fetched data for each id whose request succeeded and {} for each id whose
\* request failed, and every batch was gone through, those after a failure
\* too.
C9_FailuresAreEmptyResults ==
    wpc = "done" =>
        /\ DOMAIN work_details = Range(work_ids)
        /\ \A w \in Range(work_ids) :
              work_details[w] = IF w \in failing THEN EmptyDict ELSE WorkData(w)
        /\ w_batches * WorkBatchSize >= Len(work_ids)
        /\ (w_batches - 1) * WorkBatchSize < Len(work_ids)

\* Two batches, a failure in the first one, and the second one fetched.
C9_Witness ==
    /\ wpc = "done" /\ w_batches = 2
    /\ failing = {1}
    /\ work_details[1] = EmptyDict
    /\ work_details[WorkBatchSize + 1] = WorkData(WorkBatchSize + 1)

(***************************************************************************)
(* Properties of download_images.                                          *)
(***************************************************************************)
\* C10 (as claimed): no two download tasks of a batch that run at the same
\* time write to the same file path.
C10_DisjointFiles ==
    \A t1 \in dl_running, t2 \in dl_running :
        t1 # t2 => url_list[t1].filename # url_list[t2].filename

(***************************************************************************)
(* Properties of the waits of the upload loop.                             *)
(***************************************************************************)
\* Position of an event in the timeline of the loop body last run.
At(ev) == CHOOSE k \in 1..Len(timeline) : timeline[k] = ev

\* The loop body last run ended in the except clause with a message that
\* contains "rate" or "throttle", whatever the case of its letters.
RaisedRateLimit ==
    /\ Ev("raise") \in Range(timeline)
    /\ LET msg == progress.failed[Len(progress.failed)].error
           low == [k \in 1..Len(msg) |-> LowerChar(msg[k])]
       IN  Contains(low, <<"r", "a", "t", "e">>)
           \/ Contains(low, <<"t", "h", "r", "o", "t", "t", "l", "e">>)

\* C11: an upload that raises a rate-limit error is followed by a 30-second
\* wait, after the failure is recorded and before the checkpoint save, and,
\* when another row follows, the 2-second delay comes as well, after the
\* save; no other outcome of a loop body waits 30 seconds.
C11_RateLimitBackoff ==
    /\ RaisedRateLimit =>
          /\ Sleep(30) \in Range(timeline)
          /\ Ev("save") \in Range(timeline)
          /\ At(Ev("record")) < At(Sleep(30))
          /\ At(Sleep(30)) < At(Ev("save"))
          /\ (upc = "loop" /\ i < Len(to_process)) =>
                /\ Sleep(2) \in Range(timeline)
                /\ At(Ev("save")) < At(Sleep(2))
    /\ ~RaisedRateLimit => Sleep(30) \notin Range(timeline)

\* A throttle error in capitals on a row that is not the last one: recorded,
\* 30 seconds, saved, 2 seconds.
C11_Witness ==
    /\ upc = "loop" /\ i < Len(to_process)
    /\ progress.failed # <<>>
    /\ progress.failed[Len(progress.failed)].error =
          <<"T", "H", "R", "O", "T", "T", "L", "E">>
    /\ timeline = <<Ev("exists"), Ev("upload"), Ev("raise"), Ev("record"),
                    Sleep(30), Ev("save"), Sleep(2)>>

(***************************************************************************)
(* Properties of the "already downloaded" test of download_images.         *)
(***************************************************************************)
\* url_list has just been built: no task has run, output_dir is as found.
JustListed ==
    \/ dpc = "batch" /\ dl_start = 0
    \/ dpc = "done" /\ url_list = <<>>

\* The row is one of the pairs of url_list.
Scheduled(r) == \E t \in 1..Len(url_list) : url_list[t] = r

\* A row is scheduled exactly when Done(disk, filename) is false of it, and
\* when it is true of every row nothing is downloaded.
ScheduledUnlessDone(Done(_, _)) ==
    JustListed =>
        /\ \A k \in 1..Len(dl_rows) :
              Scheduled(dl_rows[k]) <=> ~Done(dl_disk, dl_rows[k].filename)
        /\ (\A k \in 1..Len(dl_rows) : Done(dl_disk, dl_rows[k].filename)) =>
              /\ dpc = "done"
              /\ dl_queue = <<>> /\ dl_running = {} /\ downloaded = 0

\* The file exists and is larger than 1000 bytes.
LargerThan1000(disk, name) == name \in DOMAIN disk /\ disk[name] > 1000

\* The file exists and is not smaller than 1000 bytes.
AtLeast1000(disk, name) == name \in DOMAIN disk /\ disk[name] >= 1000

\* C12 (as claimed): a row is scheduled for download if and only if its file
\* is missing or not larger than 1000 bytes; when every file is there and
\* larger than 1000 bytes no download is issued.
C12_LargerThan1000 == ScheduledUnlessDone(LargerThan1000)

\* C12 (amended): a row is scheduled for download if and only if its file is
\* missing or smaller than 1000 bytes; when every file is there with at
\* least 1000 bytes no download is issued.
C12_AtLeast1000 == ScheduledUnlessDone(AtLeast1000)

\* Two rows: the file of the first has exactly 1000 bytes and is left alone,
\* the file of the second has 999 bytes and is scheduled.
C12_Witness ==
    /\ dpc = "batch" /\ dl_start = 0
    /\ dl_images = <<1, 2>>
    /\ DOMAIN dl_disk = {WorkFilename(1), WorkFilename(2)}
    /\ dl_disk[WorkFilename(1)] = 1000
    /\ dl_disk[WorkFilename(2)] = 999
    /\ url_list = <<dl_rows[2]>>

(***************************************************************************)
(* Properties of the three thread-pool batch loops.                        *)
(***************************************************************************)
\* The batch an item belongs to, counted from 0, for batches of `size`.
BatchOf(t, size) == (t - 1) \div size

\* Fan-out and batch order, for a loop with batches of `size` items and at
\* most `cap` requests at once: no more than cap requests are in flight,
\* each of them is an item of the batch the loop is at, and every item of
\* the batches before it is done and one sleep per such batch has elapsed.
BoundedFanOut(size, cap) ==
    /\ Cardinality(pl_running) <= cap
    /\ pl_peak <= cap
    /\ \A t \in pl_running :
          /\ t \in 1..pl_items
          /\ BatchOf(t, size) * size = pl_start
          /\ \A u \in 1..pl_items :
                BatchOf(u, size) < BatchOf(t, size) => u \in pl_done
          /\ pl_slept >= BatchOf(t, size)
          /\ ppc = "collect"

\* C13: at most 10 requests are in flight in fetch_work_details and in
\* check_commons_existence and at most 12 in download_images; every request
\* in flight belongs to the current batch of 50, 30 and 50 items; and no
\* request of a batch starts before every request of the batch before it
\* has completed, with a result or an error, and the sleep between the two
\* has elapsed.
C13_BoundedSequentialBatches ==
    /\ pl_fn = "fetch_work_details" => BoundedFanOut(50, 10)
    /\ pl_fn = "check_commons_existence" => BoundedFanOut(30, 10)
    /\ pl_fn = "download_images" => BoundedFanOut(50, 12)

\* download_images on 51 items: twelve requests were in flight at once in
\* the first batch, its first request failed, all fifty are done, the sleep
\* has elapsed, and the one request of the second batch is in flight.
C13_Witness ==
    /\ pl_fn = "download_images"
    /\ pl_items = 51
    /\ pl_failing = {1}
    /\ pl_peak = 12
    /\ pl_done = 1..50
    /\ pl_slept = 1
    /\ pl_start = 50
    /\ pl_running = {51}

====
